---------------------------- MODULE Spec2Model ----------------------------
(***************************************************************************)
(* Model of the Archiver compression engine: the suffix array, the         *)
(* PSV/NSV sweep, the LZ77 factoriser and bit packer (src/src/lz_77.rs,    *)
(* src/src/suffix_array.rs), the Huffman coder (src/huffman.rs), the       *)
(* chunked parallel drivers and the container tag (src/src/main.rs).       *)
(*                                                                         *)
(* Rust vectors indexed from 0 are functions over 0..n-1 (suffix_array,    *)
(* rank, psv, nsv, inverse_suffix_array); byte strings and bit strings     *)
(* are sequences, so input[i] of the source is input[i + 1] here.          *)
(***************************************************************************)
EXTENDS Integers, Sequences, FiniteSets, TLC

\* ------------------------------------------------------------- bounds
\* Longest chunk that is enumerated exhaustively.
MaxLen == 5
\* The input alphabet holds byte 0 and the MaxSym largest byte values.
MaxSym == 1
\* Longest input of the drivers that is enumerated exhaustively.
MaxDataLen == 3
\* Largest chunk exponent of the drivers.
MaxBits == 5
\* Largest number of worker threads.
MaxWorkers == 2
\* Longest serialised form and longest file of the container.
MaxFormLen == 2
\* Most factors the post-pass scan is handed at a sampled position.
MaxScanLen == 2
\* Longest chunk whose Huffman tree is handed to better_deserialize.
MaxTreeLen == 3
\* The calls of better_deserialize_rec the thread's stack holds.
MaxDepth == 4

\* ---------------------------------------------------- program constants
\* u32::MAX, the "no predecessor" sentinel of psv and the all-ones pattern
\* handed to write_bits.  TLC's integers are 32-bit signed, so the value is
\* 2^31 - 1: it is no valid index (indices are below 2^31) and its low 31
\* bits are all ones, which is all the code reads of it (widths are <= 8).
U32_MAX == 2147483647
\* Thresholds of the short-reference post-pass.
Threshold1 == 128
Threshold2 == 32768
Threshold3 == 8388608

\* ------------------------------------------------------------ helpers
Min(S) == CHOOSE a \in S : \A b \in S : a <= b
Max(S) == CHOOSE a \in S : \A b \in S : a >= b

\* e evaluated once, then F of its value (TLC would otherwise evaluate an
\* argument again at every use of the parameter).
Eval(F(_), e) == CHOOSE y \in {F(v) : v \in {e}} : TRUE

\* The number of significant bits of d, for 0 <= d < 2^31.
BitLen(d) == Cardinality({b \in 0..30 : 2 ^ b <= d})

leading_zeros(d) == 32 - BitLen(d)

Alphabet == {0} \cup {255 - j : j \in 0..(MaxSym - 1)}

SeqsUpTo(S, n) == UNION {[1..m -> S] : m \in 0..n}

RECURSIVE Flatten(_)
Flatten(ss) == IF ss = <<>> THEN <<>> ELSE Head(ss) \o Flatten(Tail(ss))

\* ---------------------------------------------------------- BitBuffer
\* crate::bitbuffer is not among the sources; it is modelled from the
\* operations of its specification: a sequence of bits (0/1) and a read
\* cursor r counting the bits already read.
BitBuffer_new == <<>>

write_bit(buf, b) == Append(buf, IF b THEN 1 ELSE 0)

\* The low k bits of v, least significant first.
write_bits(buf, v, k) == buf \o [t \in 1..k |-> (v \div (2 ^ (t - 1))) % 2]

write_byte(buf, c) == write_bits(buf, c, 8)

\* none when fewer than k bits remain.
can_read(buf, r, k) == Len(buf) - r >= k

RECURSIVE BitsValue(_, _, _)
BitsValue(buf, r, k) ==
    IF k = 0 THEN 0 ELSE buf[r + 1] + 2 * BitsValue(buf, r + 1, k - 1)

\* The value read_bits(k) returns at cursor r (when can_read).
read_bits(buf, r, k) == BitsValue(buf, r, k)

\* ------------------------------------------------------- suffix array
\* A comparison that looks at the first key only.
compare_first_key(i, j, k, rank) ==
    IF rank[i] < rank[j] THEN "Less" ELSE IF rank[i] > rank[j] THEN "Greater" ELSE "Equal"

compare_node(i, j, k, rank) ==
    LET len == Cardinality(DOMAIN rank)
        ord(a, b) == IF a < b THEN "Less" ELSE IF a > b THEN "Greater" ELSE "Equal"
    IN  IF rank[i] # rank[j]
        THEN ord(rank[i], rank[j])
        ELSE LET ri == IF i + k < len THEN rank[i + k] ELSE -1
                 rj == IF j + k < len THEN rank[j + k] ELSE -1
             IN  ord(ri, rj)

\* array.sort_by(cmp): a stable sort.  The element at index i moves to the
\* position counting the elements that sort before it and the equal ones
\* that stood before it.
sort_by(array, k, rank) ==
    LET n1 == Cardinality(DOMAIN array)
        pos == [i \in 0..(n1 - 1) |->
                  Cardinality({j \in 0..(n1 - 1) :
                      \/ compare_node(array[j], array[i], k, rank) = "Less"
                      \/ /\ j < i
                         /\ compare_node(array[j], array[i], k, rank) = "Equal"})]
    IN  [p \in 0..(n1 - 1) |-> array[CHOOSE i \in 0..(n1 - 1) : pos[i] = p]]

\* One round of the doubling loop: sort, then rank the sorted suffixes.
RankSorted(sorted, rank, k) ==
    LET n1 == Cardinality(DOMAIN sorted)
        \* d of the source, for i >= 1
        d == [i \in 1..(n1 - 1) |->
                IF compare_node(sorted[i - 1], sorted[i], k, rank) = "Less"
                THEN 1 ELSE 0]
        \* tmp[array[i]] = tmp[array[i - 1]] + d, from tmp[array[0]] = 0
        tmp_at(i) == Cardinality({j \in 1..i : d[j] = 1})
    IN  [a \in 0..(n1 - 1) |-> tmp_at(CHOOSE i \in 0..(n1 - 1) : sorted[i] = a)]

SaRound(array, rank, k) ==
    Eval(LAMBDA sorted :
           [array |-> sorted, rank |-> RankSorted(sorted, rank, k), k |-> k * 2],
         sort_by(array, k, rank))

\* The state before the first round.
SaInit(s) ==
    LET n == Len(s)
    IN  [array |-> [i \in 0..n |-> i],
         rank |-> [i \in 0..n |-> IF i < n THEN s[i + 1] ELSE -1],
         k |-> 1]

RECURSIVE SaLoop(_, _)
SaLoop(st, n) ==
    IF st.k <= n
    THEN Eval(LAMBDA next : SaLoop(next, n), SaRound(st.array, st.rank, st.k))
    ELSE st

\* SuffixArray::new(s).array
SuffixArray_new(s) == SaLoop(SaInit(s), Len(s)).array


\* ------------------------------------------------- LZ77: PSV/NSV, ISA
\* The first scoped thread of fast_encode.
InverseSuffixArray(suffix_array, n) ==
    [a \in 0..n |-> CHOOSE i \in 0..n : suffix_array[i] = a]

RECURSIVE SweepWhileGreater(_, _, _, _, _)
\* A sweep that walks back over the smaller values instead of the larger.
SweepWhileGreater(suffix_array, psv, nsv, i, j) ==
    IF psv[j] # U32_MAX /\ suffix_array[i] > suffix_array[j]
    THEN SweepWhileGreater(suffix_array, psv, [nsv EXCEPT ![j] = i], i, psv[j])
    ELSE [psv |-> [psv EXCEPT ![i] = j], nsv |-> nsv]

RECURSIVE SweepWhile(_, _, _, _, _)
\* The inner while loop for one i; ends with psv[i] = j.
SweepWhile(suffix_array, psv, nsv, i, j) ==
    IF psv[j] # U32_MAX /\ suffix_array[i] < suffix_array[j]
    THEN SweepWhile(suffix_array, psv, [nsv EXCEPT ![j] = i], i, psv[j])
    ELSE [psv |-> [psv EXCEPT ![i] = j], nsv |-> nsv]

\* The range of the outer loop, for i in 1..n (n excluded).
SweepRange(n) == 1..(n - 1)

RECURSIVE SweepFor(_, _, _, _, _)
SweepFor(suffix_array, psv, nsv, i, n) ==
    IF i \in SweepRange(n)
    THEN Eval(LAMBDA r : SweepFor(suffix_array, r.psv, r.nsv, r.i + 1, n),
              [i |-> i] @@ SweepWhile(suffix_array, psv, nsv, i, i - 1))
    ELSE [psv |-> psv, nsv |-> nsv]

\* The second scoped thread: the sweep, then the fold of the sentinel to 0.
Sweep(suffix_array, n) ==
    Eval(LAMBDA r :
           [psv |-> [i \in 0..n |-> IF r.psv[i] = U32_MAX THEN 0 ELSE r.psv[i]],
            nsv |-> r.nsv],
         SweepFor(suffix_array, [i \in 0..n |-> U32_MAX],
                  [i \in 0..n |-> 0], 1, n))

\* --------------------------------------------------- LZ77: factoriser
\* The value position() finds, or the unwrap_or(0) default.
LpcDefault(input, i, j) == 0

\* Index of the first mismatch of input[i..] zipped with input[j..]; the zip
\* ends with the shorter of the two.
lpc(input, i, j) ==
    LET n == Len(input)
        m == IF i > j THEN n - i ELSE n - j
        mism == {t \in 0..(m - 1) : input[i + t + 1] # input[j + t + 1]}
    IN  IF mism = {} THEN LpcDefault(input, i, j) ELSE Min(mism)

\* <<p, l, c, indx>>
lz_factor(i, psv, nsv, x) ==
    LET v1 == lpc(x, i, psv)
        v2 == lpc(x, i, nsv)
        p == IF v1 > v2 THEN psv ELSE nsv
        l == IF v1 > v2 THEN v1 ELSE v2
    IN  IF i + l < Len(x)
        THEN <<p, l, x[i + l + 1], i + (IF l > 1 THEN l ELSE 1)>>
        ELSE <<p, l, 0, i + l>>

\* One iteration of the factor loop at position k.
FactorAt(x, suffix_array, isa, psv, nsv, k) ==
    lz_factor(k, suffix_array[psv[isa[k]]], suffix_array[nsv[isa[k]]], x)

RECURSIVE FactorLoop(_, _, _, _, _, _, _)
FactorLoop(x, suffix_array, isa, psv, nsv, k, factors) ==
    IF k < Len(x)
    THEN Eval(LAMBDA f : FactorLoop(x, suffix_array, isa, psv, nsv, f[4],
                                    Append(f[5], <<f[1], f[2], f[3]>>)),
              FactorAt(x, suffix_array, isa, psv, nsv, k) \o <<factors>>)
    ELSE factors

\* The count the post-pass compares with its thresholds, for a factor of
\* length l met when the running count was count.
ScanCount(count, l) == count + (IF l > 1 THEN l ELSE 1)

\* What the scan closure returns for one factor.
ScanFactor(input, count, f) ==
    LET p == f[1]
        l == f[2]
    IN  IF l = 1 /\ count >= Threshold1
        THEN << <<0, 0, input[p + 1]>> >>
        ELSE IF l = 2 /\ count >= Threshold2
        THEN << <<0, 0, input[p + 1]>>, <<0, 0, input[p + 2]>> >>
        ELSE IF l = 3 /\ count >= Threshold3
        THEN << <<0, 0, input[p + 1]>>, <<0, 0, input[p + 2]>>,
                <<0, 0, input[p + 3]>> >>
        ELSE << f >>

RECURSIVE PostPassFrom(_, _, _, _, _)
PostPassFrom(input, factors, i, count, out) ==
    IF i > Len(factors) THEN out
    ELSE Eval(LAMBDA c : PostPassFrom(input, factors, c[1], c[2],
                                      c[3] \o ScanFactor(input, c[2], factors[c[1] - 1])),
              <<i + 1, ScanCount(count, factors[i][2]), out>>)

\* scan(0, ...).flatten()
PostPass(input, factors) == PostPassFrom(input, factors, 1, 0, <<>>)

\* --------------------------------------------------- LZ77: bit packer
\* A width that grows with every third bit of the position.
lenght_size_third(bits) ==
    LET third == bits \div 3
        capped == IF third < 8 THEN third ELSE 8
    IN  IF capped > 1 THEN capped ELSE 1

\* (bits / 2).min(8).max(1)
lenght_size(bits) ==
    LET half == bits \div 2
        capped == IF half < 8 THEN half ELSE 8
    IN  IF capped > 1 THEN capped ELSE 1

\* Self::lenght_size(31 - leading_zeros(D) as u8); the subtraction is in u8.
LenghtSizeAt(D) == lenght_size((31 - leading_zeros(D)) % 256)

\* A longest run that does not fit the length field.
MaxLenghtWide(size) == 2 ^ size

\* 2u32.pow(lenght_size) - 1
MaxLenght(size) == 2 ^ size - 1

\* An offset field one bit short.
CurrentBitsShort(D) == 31 - leading_zeros(D)

\* 32 - leading_zeros(D) as u8: the width of the offset field.
CurrentBits(D) == 32 - leading_zeros(D)

\* char_prob > 0.25 for char_count literals among len factors (0/0 is NaN,
\* and NaN > 0.25 is false).
FlagMode(factors) ==
    LET char_count == Cardinality({i \in 1..Len(factors) : factors[i][2] = 0})
    IN  4 * char_count > Len(factors)

\* The packer's state before the first factor: the flag bit is written.
PackInit(factors) ==
    [buf |-> write_bit(BitBuffer_new, FlagMode(factors)),
     current_char_index |-> 0,
     lenght_size |-> 1,
     log |-> <<>>]

\* A literal written without current_char_index += 1.
PackLiteralStale(st, flag_mode, c) ==
    LET tagged == IF flag_mode THEN write_bit(st.buf, FALSE)
                  ELSE write_bits(st.buf, 0, st.lenght_size)
    IN  [st EXCEPT !.buf = write_byte(tagged, c),
                   !.log = Append(st.log, [D |-> st.current_char_index, p |-> 0, l |-> 0, lval |-> 0,
                                           lenght_size |-> st.lenght_size,
                                           current_bits |-> 0])]

\* A literal: the tag (one 0 bit, or a zero length), then the byte.
PackLiteral(st, flag_mode, c) ==
    LET tagged == IF flag_mode THEN write_bit(st.buf, FALSE)
                  ELSE write_bits(st.buf, 0, st.lenght_size)
        D == st.current_char_index + 1
    IN  [buf |-> write_byte(tagged, c),
         current_char_index |-> D,
         lenght_size |-> LenghtSizeAt(D),
         log |-> Append(st.log, [D |-> st.current_char_index, p |-> 0, l |-> 0, lval |-> 0,
                                 lenght_size |-> st.lenght_size, current_bits |-> 0])]

\* One length field and one offset field, for a copy of adv bytes from p.
PackField(st, flag_mode, lval, p, adv) ==
    LET current_bits == CurrentBits(st.current_char_index)
        tagged == IF flag_mode THEN write_bit(st.buf, TRUE) ELSE st.buf
        D == st.current_char_index + adv
    IN  [buf |-> write_bits(write_bits(tagged, lval, st.lenght_size), p, current_bits),
         current_char_index |-> D,
         lenght_size |-> LenghtSizeAt(D),
         log |-> Append(st.log, [D |-> st.current_char_index, p |-> p, l |-> adv, lval |-> lval,
                                 lenght_size |-> st.lenght_size,
                                 current_bits |-> current_bits])]

RECURSIVE PackReference(_, _, _, _)
\* while l > max_lenght: a fragment of max_lenght bytes; then the remainder.
PackReference(st, flag_mode, p, l) ==
    LET max_lenght == MaxLenght(st.lenght_size)
    IN  IF l > max_lenght
        THEN Eval(LAMBDA a : PackReference(a[1], flag_mode, a[2], a[3]),
                  <<PackField(st, flag_mode, U32_MAX, p, max_lenght),
                    p + max_lenght, l - max_lenght>>)
        ELSE PackField(st, flag_mode, l, p, l)

\* The fold closure of the packer for one factor (p, l, c).
PackFactor(st, flag_mode, f) ==
    IF f[2] = 0 THEN PackLiteral(st, flag_mode, f[3])
    ELSE PackReference(st, flag_mode, f[1], f[2])

RECURSIVE PackFold(_, _, _, _)
\* The fold over factors[i..].
PackFold(st, flag_mode, factors, i) ==
    IF i > Len(factors) THEN st
    ELSE Eval(LAMBDA a : PackFold(a[1], flag_mode, factors, a[2]),
              <<PackFactor(st, flag_mode, factors[i]), i + 1>>)

\* The factors before the post-pass.
Factorise(input) ==
    Eval(LAMBDA suffix_array :
           Eval(LAMBDA t : FactorLoop(input, suffix_array, t[1], t[2].psv, t[2].nsv,
                                      0, <<>>),
                <<InverseSuffixArray(suffix_array, Len(input)),
                  Sweep(suffix_array, Len(input))>>),
         SuffixArray_new(input))

\* LZ77::fast_encode(input): the bits of the chunk's BitBuffer.
fast_encode(input) ==
    Eval(LAMBDA factors :
           PackFold(PackInit(factors), FlagMode(factors), factors, 1).buf,
         PostPass(input, Factorise(input)))

\* ------------------------------------------------------ LZ77: decoder
\* The reader's state after the flag bit (read_bit().unwrap()).
DecodeInit ==
    [r |-> 1, current_char_index |-> 0, lenght_size |-> 1, factors |-> <<>>,
     log |-> <<>>, status |-> "reading"]

\* A literal's byte follows at cursor r.
DecodeLiteral(chunk, st, r) ==
    IF ~can_read(chunk, r, 8) THEN [st EXCEPT !.status = "panic"]
    ELSE LET D == st.current_char_index + 1
         IN  [r |-> r + 8,
              current_char_index |-> D,
              lenght_size |-> LenghtSizeAt(D),
              factors |-> Append(st.factors, <<0, 0, read_bits(chunk, r, 8)>>),
              log |-> Append(st.log, [D |-> st.current_char_index,
                                      lenght_size |-> st.lenght_size,
                                      current_bits |-> 0]),
              status |-> "reading"]

\* A reference of length l whose offset field follows at cursor r.
DecodeReference(chunk, st, r, l) ==
    LET current_bits == CurrentBits(st.current_char_index)
        D == st.current_char_index + l
    IN  IF ~can_read(chunk, r, current_bits) THEN [st EXCEPT !.status = "panic"]
        ELSE [r |-> r + current_bits,
              current_char_index |-> D,
              lenght_size |-> LenghtSizeAt(D),
              factors |-> Append(st.factors, <<read_bits(chunk, r, current_bits), l, 0>>),
              log |-> Append(st.log, [D |-> st.current_char_index,
                                      lenght_size |-> st.lenght_size,
                                      current_bits |-> current_bits]),
              status |-> "reading"]

\* One pass of the reader's while loop, in the chunk's flag mode.
DecodeStep(chunk, flag_mode, st) ==
    IF flag_mode
    THEN IF ~can_read(chunk, st.r, 1) THEN [st EXCEPT !.status = "end"]
         ELSE IF read_bits(chunk, st.r, 1) = 0
         THEN DecodeLiteral(chunk, st, st.r + 1)
         ELSE IF ~can_read(chunk, st.r + 1, st.lenght_size)
         THEN [st EXCEPT !.status = "panic"]
         ELSE DecodeReference(chunk, st, st.r + 1 + st.lenght_size,
                              read_bits(chunk, st.r + 1, st.lenght_size))
    ELSE IF ~can_read(chunk, st.r, st.lenght_size) THEN [st EXCEPT !.status = "end"]
         ELSE LET l == read_bits(chunk, st.r, st.lenght_size)
              IN  IF l = 0
                  THEN DecodeLiteral(chunk, st, st.r + st.lenght_size)
                  ELSE DecodeReference(chunk, st, st.r + st.lenght_size, l)

RECURSIVE DecodeLoop(_, _, _)
DecodeLoop(chunk, flag_mode, st) ==
    IF st.status = "reading"
    THEN Eval(LAMBDA next : DecodeLoop(chunk, flag_mode, next),
              DecodeStep(chunk, flag_mode, st))
    ELSE st

RECURSIVE CopyRun(_, _, _, _)
\* for i in 0..l { acc.push(acc[p + i]) }; an index past the end panics.
CopyRun(acc, p, i, l) ==
    IF i >= l \/ acc.panic THEN acc
    ELSE IF p + i >= Len(acc.bytes) THEN [acc EXCEPT !.panic = TRUE]
    ELSE Eval(LAMBDA a : CopyRun(a[1], p, a[2], l),
              <<[acc EXCEPT !.bytes = Append(acc.bytes, acc.bytes[p + i + 1])], i + 1>>)

\* The fold closure of decode_chunk for one factor (p, l, c).
DecodeFactor(acc, f) ==
    IF f[2] = 0 THEN [acc EXCEPT !.bytes = Append(acc.bytes, f[3])]
    ELSE CopyRun(acc, f[1], 0, f[2])

RECURSIVE DecodeChunkFold(_, _, _)
DecodeChunkFold(acc, factors, i) ==
    IF i > Len(factors) \/ acc.panic THEN acc
    ELSE Eval(LAMBDA a : DecodeChunkFold(a[1], factors, a[2]),
              <<DecodeFactor(acc, factors[i]), i + 1>>)

\* LZ77::decode_chunk(factors)
decode_chunk(factors) == DecodeChunkFold([bytes |-> <<>>, panic |-> FALSE], factors, 1)

\* The closure LZ77::decode maps over the chunks: [bytes, panic].
DecodeBuffer(chunk) ==
    IF ~can_read(chunk, 0, 1) THEN [bytes |-> <<>>, panic |-> TRUE]
    ELSE Eval(LAMBDA st : IF st.status = "panic" THEN [bytes |-> <<>>, panic |-> TRUE]
                          ELSE decode_chunk(st.factors),
              DecodeLoop(chunk, read_bits(chunk, 0, 1) = 1, DecodeInit))

\* ------------------------------------------- BitBuffer: serialised form
\* The bytes holding a bit string, bit i in byte i / 8 at position i % 8
\* counted from the least significant bit.
PackBits(bs) ==
    [b \in 1..((Len(bs) + 7) \div 8) |->
        LET at(t) == IF 8 * (b - 1) + t <= Len(bs) THEN bs[8 * (b - 1) + t] ELSE 0
        IN  at(1) + 2 * at(2) + 4 * at(3) + 8 * at(4) + 16 * at(5) + 32 * at(6)
            + 64 * at(7) + 128 * at(8)]

\* The 8 * |bytes| bits of a byte string, in the same order.
UnpackBits(bytes) ==
    [t \in 1..(8 * Len(bytes)) |-> (bytes[((t - 1) \div 8) + 1] \div (2 ^ ((t - 1) % 8))) % 2]

\* unused bits in the last byte of a string of count bits
UnusedBits(count) == IF count % 8 = 0 THEN 0 ELSE 8 - (count % 8)

\* BitBuffer::serialize: the count of unused bits of the last byte, then the
\* byte payload, so that the number of bits is recoverable.
BitBuffer_serialize(buf) == <<UnusedBits(Len(buf))>> \o PackBits(buf)

\* BitBuffer::deserialize: the inverse.
BitBuffer_deserialize(bytes) ==
    IF bytes = <<>> THEN <<>>
    ELSE LET all == UnpackBits(Tail(bytes))
         IN  SubSeq(all, 1, Len(all) - bytes[1])

\* ------------------------------------------------------------ Huffman
\* Option<u8>::None
NoChar == -1

Leaf(c) == [children |-> <<>>, character |-> c]

Internal(left, right) == [children |-> <<left, right>>, character |-> NoChar]

\* The byte values that get a leaf.  The code seeds all 256 byte values; the
\* model seeds the input alphabet and one byte that no input holds, so that a
\* leaf of count zero is always there.
Symbols == Alphabet \cup {1}

\* build_tree's counts
Counts(bytes) == [c \in Symbols |-> Cardinality({i \in 1..Len(bytes) : bytes[i] = c})]

\* from_counts: the queue after pq.extend, one leaf per symbol.
PqInit(counts) == {[tree |-> Leaf(c), count |-> counts[c]] : c \in Symbols}

\* The entries pq.pop() may return: those of the highest priority
\* Reverse(count), that is of the lowest count.
PopChoices(pq) == {e \in pq : \A o \in pq : e.count <= o.count}

\* The queue after the two popped entries are merged and pushed.
PqMerged(pq, left, right) ==
    (pq \ {left, right})
        \cup {[tree |-> Internal(left.tree, right.tree), count |-> left.count + right.count]}

RECURSIVE FirstLeaf(_)
FirstLeaf(tree) ==
    IF tree.character # NoChar THEN tree.character ELSE FirstLeaf(tree.children[1])

\* One fixed order among entries of equal count (by leftmost leaf).
PopFirst(pq) ==
    CHOOSE e \in PopChoices(pq) :
        \A o \in PopChoices(pq) : FirstLeaf(e.tree) <= FirstLeaf(o.tree)

RECURSIVE PqLoop(_)
\* while pq.len() > 1, with that order of equal counts.
PqLoop(pq) ==
    IF Cardinality(pq) > 1
    THEN Eval(LAMBDA left :
                Eval(LAMBDA right : PqLoop(PqMerged(pq, left, right)),
                     PopFirst(pq \ {left})),
              PopFirst(pq))
    ELSE pq

\* HuffmanTree::build_tree(input), equal counts popped in that order.
build_tree(bytes) == (CHOOSE e \in PqLoop(PqInit(Counts(bytes))) : TRUE).tree

RECURSIVE CodePaths(_, _)
\* build_map: the pairs <<c, path>>, false = 0 for children[0], true = 1.
CodePaths(tree, current_path) ==
    IF tree.character # NoChar THEN {<<tree.character, current_path>>}
    ELSE CodePaths(tree.children[1], Append(current_path, 0))
             \cup CodePaths(tree.children[2], Append(current_path, 1))

\* The lookup vector build_map fills (an empty path where no leaf wrote).
build_map(tree) ==
    Eval(LAMBDA paths :
           [c \in Symbols |->
               IF \E e \in paths : e[1] = c
               THEN (CHOOSE e \in paths : e[1] = c)[2] ELSE <<>>],
         CodePaths(tree, <<>>))

RECURSIVE SerializeRec(_)
SerializeRec(tree) ==
    IF tree.character # NoChar
    THEN write_byte(write_bit(BitBuffer_new, TRUE), tree.character)
    ELSE write_bit(BitBuffer_new, FALSE)
             \o SerializeRec(tree.children[1]) \o SerializeRec(tree.children[2])

better_serialize(tree) == BitBuffer_serialize(SerializeRec(tree))

RECURSIVE DeserializeRec(_, _, _)
\* better_deserialize_rec at cursor r: [tree, r, status].  A read_bit that is
\* not Some(true), none included, takes the branch of an internal node: with
\* no bit left the recursion never ends ("overflow").  depth bounds the
\* recursion of the model.
DeserializeRec(buf, r, depth) ==
    IF depth = 0 \/ ~can_read(buf, r, 1)
    THEN [tree |-> Leaf(NoChar), r |-> r, status |-> "overflow"]
    ELSE IF read_bits(buf, r, 1) = 1
    THEN IF can_read(buf, r + 1, 8)
         THEN [tree |-> Leaf(read_bits(buf, r + 1, 8)), r |-> r + 9, status |-> "ok"]
         ELSE [tree |-> Leaf(NoChar), r |-> r + 1, status |-> "no_character"]
    ELSE Eval(LAMBDA left :
                IF left.status = "overflow" THEN left
                ELSE Eval(LAMBDA right :
                            [tree |-> Internal(left.tree, right.tree), r |-> right.r,
                             status |-> IF right.status # "ok" THEN right.status
                                        ELSE left.status],
                          DeserializeRec(buf, left.r, depth - 1)),
              DeserializeRec(buf, r + 1, depth - 1))

\* HuffmanTree::better_deserialize(input)
better_deserialize(bytes) ==
    Eval(LAMBDA buf : DeserializeRec(buf, 0, Len(buf) + 1), BitBuffer_deserialize(bytes))

\* The payload bits of encrypt: the codes of the input bytes, in order.
CodeBits(bytes, lookup) == Flatten([i \in 1..Len(bytes) |-> lookup[bytes[i]]])

\* A payload tail taken as full.
EncryptUnusedNone(count) == 0

\* The unused_bits field, from the number of payload bits.
EncryptUnused(count) == IF count % 8 = 0 THEN 0 ELSE 8 - (count % 8)

\* Huffman::encrypt with the tree already built.
EncryptWith(bytes, tree) ==
    Eval(LAMBDA payload :
           [tree |-> better_serialize(tree),
            unused_bits |-> EncryptUnused(Len(payload)),
            data |-> PackBits(payload)],
         CodeBits(bytes, build_map(tree)))

\* Huffman::encrypt(input)
Huffman_encrypt(bytes) == EncryptWith(bytes, build_tree(bytes))

\* fold(0, |acc, f| (acc << 1) | f) over once(true).chain(path)
RECURSIVE PathIndex(_, _, _)
PathIndex(path, i, acc) ==
    IF i > Len(path) THEN acc ELSE PathIndex(path, i + 1, 2 * acc + path[i])

\* build_reverse_map: 2^(max_len + 1) slots, None but at 1 || path of each
\* symbol.
build_reverse_map(tree) ==
    Eval(LAMBDA map :
           Eval(LAMBDA max_len :
                  [indx \in 0..(2 ^ (max_len + 1) - 1) |->
                      IF \E c \in Symbols : PathIndex(map[c], 1, 1) = indx
                      THEN Max({c \in Symbols : PathIndex(map[c], 1, 1) = indx})
                      ELSE NoChar],
                Max({Len(map[c]) : c \in Symbols})),
         build_map(tree))

\* The number of payload bits decrypt walks over.
DecryptBits(h) == Len(h.data) * 8 - h.unused_bits

\* One pass of decrypt's loop at bit i: [i, input, result, panic].
DecryptStep(h, map, st) ==
    LET bit == (h.data[(st.i \div 8) + 1] \div (2 ^ (st.i % 8))) % 2
        pushed == Append(st.input, bit)
        indx == PathIndex(pushed, 1, 1)
    IN  IF indx \notin DOMAIN map
        THEN [st EXCEPT !.panic = TRUE]
        ELSE IF map[indx] # NoChar
        THEN [i |-> st.i + 1, input |-> <<>>, result |-> Append(st.result, map[indx]),
              panic |-> FALSE]
        ELSE [i |-> st.i + 1, input |-> pushed, result |-> st.result, panic |-> FALSE]

DecryptInit == [i |-> 0, input |-> <<>>, result |-> <<>>, panic |-> FALSE]

RECURSIVE DecryptLoop(_, _, _)
DecryptLoop(h, map, st) ==
    IF st.i < DecryptBits(h) /\ ~st.panic
    THEN Eval(LAMBDA next : DecryptLoop(h, map, next), DecryptStep(h, map, st))
    ELSE st

\* Huffman::decrypt(&self): [bytes, panic]
Huffman_decrypt(h) ==
    Eval(LAMBDA t :
           IF t.status # "ok" THEN [bytes |-> <<>>, panic |-> TRUE]
           ELSE Eval(LAMBDA st : [bytes |-> st.result, panic |-> st.panic],
                     DecryptLoop(h, build_reverse_map(t.tree), DecryptInit)),
         better_deserialize(h.tree))

\* --------------------------------------------------- parallel drivers
\* The chunk size of both drivers as documented.
LzChunkSizeOdd(bits) == 2 ^ bits - 1

\* LZ77::encode's chunk_size
LzChunkSize(bits) == 2 ^ bits - 2

\* ParrallelHuffman::encrypt's chunk_size
HuffmanChunkSize(bits) == 2 ^ bits - 1

ChunkSize(codec, bits) ==
    IF codec = "lz" THEN LzChunkSize(bits) ELSE HuffmanChunkSize(bits)

\* num_chunks of LZ77::encode; the number of slices input.chunks(chunk_size)
\* yields.
NumChunks(n, chunk_size) == (n \div chunk_size) + (IF n % chunk_size = 0 THEN 0 ELSE 1)

\* &input[start..end] of chunk i, counted from 0.
ChunkAt(bytes, chunk_size, i) ==
    SubSeq(bytes, i * chunk_size + 1, Min({(i + 1) * chunk_size, Len(bytes)}))

\* The chunks the tasks are spawned over, in index order.
Chunks(bytes, chunk_size) ==
    [i \in 1..NumChunks(Len(bytes), chunk_size) |-> ChunkAt(bytes, chunk_size, i - 1)]

\* The closure a task of the encoding side runs on its chunk.
EncodeChunk(codec, chunk) ==
    IF codec = "lz" THEN fast_encode(chunk) ELSE Huffman_encrypt(chunk)

\* The closure a task of the decoding side runs on its chunk: [bytes, panic].
DecodeChunk(codec, chunk) ==
    IF codec = "lz" THEN DecodeBuffer(chunk) ELSE Huffman_decrypt(chunk)

\* A collect that lists the items as their tasks finished.
collect_as_finished(slot, order) == [i \in 1..Len(order) |-> slot[order[i][2]]]

\* collect::<Vec<_>>() of a parallel iterator: the items by the index of the
\* task that produced them, wherever order lists the tasks as they finished.
collect(slot, order) == [i \in 1..Len(order) |-> slot[i]]

\* flat_map(..).collect(): the decoded chunks joined in that order.
FlatCollect(slot, order) ==
    Eval(LAMBDA parts :
           [bytes |-> Flatten([i \in 1..Len(parts) |-> parts[i].bytes]),
            panic |-> \E i \in 1..Len(parts) : parts[i].panic],
         collect(slot, order))

\* A comparison that keeps the LZ-only form only when it is strictly shorter.
TagForStrict(lz_len, huffman_len) == IF lz_len < huffman_len THEN 0 ELSE 1

\* compress: the form that is written, after its tag byte.
TagFor(lz_len, huffman_len) == IF lz_len <= huffman_len THEN 0 ELSE 1

Compressed(lz_form, huffman_form) ==
    IF TagFor(Len(lz_form), Len(huffman_form)) = 0
    THEN <<0>> \o lz_form
    ELSE <<1>> \o huffman_form

\* decompress: the branch taken on contents[0] and the bytes handed to it.
Decompressed(file) ==
    IF file = <<>> THEN [branch |-> "panic", payload |-> <<>>]
    ELSE IF file[1] = 0 THEN [branch |-> "lz_only", payload |-> Tail(file)]
    ELSE [branch |-> "lz_huffman", payload |-> Tail(file)]

\* ================================ one chunk, step by step (Spec)
VARIABLES
    \* --- one chunk through LZ77::fast_encode and the closure of LZ77::decode
    input,                 \* the chunk handed to fast_encode
    pc,                    \* where the chunk's codec stands
    sa,                    \* SuffixArray::new: [array, rank, k]
    joined,                \* the scoped threads that have finished
    inverse_suffix_array,
    psv,
    nsv,
    k,                     \* the factor loop's position
    raw_factors,           \* factors as the factor loop pushed them
    starts,                \* the value of k when each of them was pushed
    factors,               \* factors after the post-pass
    flag_mode,
    next_factor,           \* index of the next factor the packer folds
    packer,                \* [buf, current_char_index, lenght_size, log]
    reader,                \* the decoder's loop state
    decoded,               \* decode_chunk's result: [bytes, panic]
    \* --- the parallel drivers LZ77::encode/decode, ParrallelHuffman::encrypt/decrypt
    data,                  \* the bytes handed to the driver
    bits,                  \* its chunk exponent
    codec,                 \* "lz" or "huffman"
    workers,               \* threads of the pool
    phase,                 \* "split", "encode", "decode", "done"
    chunks,                \* the slices the encoding tasks run on
    task,                  \* per task of the phase: "todo", "running", "done"
    slot,                  \* per task: what its closure returned
    finished,              \* <<phase, index>> of the tasks in the order they finished
    bitbuffers,            \* LZ77.bitbuffers / ParrallelHuffman.chunks
    result,                \* what decode / decrypt returned: [bytes, panic]
    \* --- one chunk through Huffman::encrypt and Huffman::decrypt
    plain,                 \* the chunk handed to Huffman::encrypt
    h_pc,                  \* where the chunk's coder stands
    pq,                    \* from_counts' priority queue
    huffman,               \* the Huffman struct: [tree, unused_bits, data]
    reverse_map,           \* build_reverse_map's table
    dec,                   \* decrypt's loop: [i, input, result, panic]
    \* --- compress and decompress
    c_pc,                  \* where the container stands
    lz_encoded,            \* LZ77::encode(..).serialize()
    huffman_serialized,    \* ParrallelHuffman::encrypt(..).serialize()
    contents,              \* the bytes of the .tmy file
    root,                  \* decompress: [branch, payload]
    \* --- the scan of fast_encode's post-pass, factor by factor
    scan_pc,               \* where the scan stands
    scan_input,            \* the chunk's bytes, as far as the scan reads them
    scan_todo,             \* the factors the iterator still holds
    scan_count,            \* the accumulator *count
    scan_out,              \* the flattened factors collected so far
    scan_log,              \* per factor met: [D, f, out]
    \* --- HuffmanTree::better_deserialize, call by call
    tree_pc,               \* where the reader stands
    tree_bits,             \* the bits of BitBuffer::deserialize(input)
    tree_r,                \* the bits already read
    tree_stack,            \* the calls that wait for children
    tree_out               \* the tree returned

lzVars == <<input, pc, sa, joined, inverse_suffix_array, psv, nsv, k, raw_factors,
            starts, factors, flag_mode, next_factor, packer, reader, decoded>>

driverVars == <<data, bits, codec, workers, phase, chunks, task, slot, finished,
                bitbuffers, result>>

huffmanVars == <<plain, h_pc, pq, huffman, reverse_map, dec>>

containerVars == <<c_pc, lz_encoded, huffman_serialized, contents, root>>

scanVars == <<scan_pc, scan_input, scan_todo, scan_count, scan_out, scan_log>>

treeVars == <<tree_pc, tree_bits, tree_r, tree_stack, tree_out>>

vars == <<lzVars, driverVars, huffmanVars, containerVars, scanVars, treeVars>>

None == <<>>

\* The parts of the program a specification does not run stand still.
LzIdle ==
    /\ input = <<>> /\ pc = "idle" /\ sa = None /\ joined = {}
    /\ inverse_suffix_array = None /\ psv = None /\ nsv = None /\ k = 0
    /\ raw_factors = <<>> /\ starts = <<>> /\ factors = <<>> /\ flag_mode = FALSE
    /\ next_factor = 1 /\ packer = None /\ reader = None /\ decoded = None

DriverIdle ==
    /\ data = <<>> /\ bits = 0 /\ codec = "lz" /\ workers = 0 /\ phase = "idle"
    /\ chunks = <<>> /\ task = <<>> /\ slot = <<>> /\ finished = <<>>
    /\ bitbuffers = <<>> /\ result = None

HuffmanIdle ==
    /\ plain = <<>> /\ h_pc = "idle" /\ pq = {} /\ huffman = None
    /\ reverse_map = None /\ dec = None

ContainerIdle ==
    /\ c_pc = "idle" /\ lz_encoded = <<>> /\ huffman_serialized = <<>>
    /\ contents = <<>> /\ root = None

ScanIdle ==
    /\ scan_pc = "idle" /\ scan_input = <<>> /\ scan_todo = <<>> /\ scan_count = 0
    /\ scan_out = <<>> /\ scan_log = <<>>

TreeIdle ==
    /\ tree_pc = "idle" /\ tree_bits = <<>> /\ tree_r = 0 /\ tree_stack = <<>>
    /\ tree_out = None

\* A chunk on which fast_encode selects flag_mode = false.
SeedReferenceHeavy == <<0, 0, 255, 0, 255, 255, 255, 255, 255, 255, 255, 255, 255>>

\* Thirty bytes on which fast_encode selects flag_mode = false and, past
\* position 16, writes length fields of two bits: references of length 2 and
\* 3, one whose source overlaps its own output, and longer ones that are
\* split.
SeedWideFields ==
    <<0, 255, 0, 255, 255, 0, 255, 0, 0, 255, 0, 255, 0, 0, 255, 0, 0, 0, 0, 255, 0, 0,
      255, 255, 255, 0, 255, 255, 0, 255>>

Seeds == {SeedReferenceHeavy, SeedWideFields}

Inputs == SeqsUpTo(Alphabet, MaxLen) \cup Seeds

Init ==
    /\ input \in Inputs
    /\ pc = "suffix_array"
    /\ sa = SaInit(input)
    /\ joined = {}
    /\ inverse_suffix_array = None
    /\ psv = None
    /\ nsv = None
    /\ k = 0
    /\ raw_factors = <<>>
    /\ starts = <<>>
    /\ factors = <<>>
    /\ flag_mode = FALSE
    /\ next_factor = 1
    /\ packer = None
    /\ reader = None
    /\ decoded = None
    /\ DriverIdle /\ HuffmanIdle /\ ContainerIdle /\ ScanIdle /\ TreeIdle

\* while k <= n: one doubling round of SuffixArray::new.
SaRoundStep ==
    /\ pc = "suffix_array"
    /\ sa.k <= Len(input)
    /\ sa' = SaRound(sa.array, sa.rank, sa.k)
    /\ UNCHANGED <<input, pc, joined, inverse_suffix_array, psv, nsv, k, raw_factors,
                   starts, factors, flag_mode, next_factor, packer, reader, decoded>>
    /\ UNCHANGED <<driverVars, huffmanVars, containerVars, scanVars, treeVars>>

\* SuffixArray::new returns; fast_encode opens the thread scope.
SaReturn ==
    /\ pc = "suffix_array"
    /\ sa.k > Len(input)
    /\ pc' = "threads"
    /\ UNCHANGED <<input, sa, joined, inverse_suffix_array, psv, nsv, k, raw_factors,
                   starts, factors, flag_mode, next_factor, packer, reader, decoded>>
    /\ UNCHANGED <<driverVars, huffmanVars, containerVars, scanVars, treeVars>>

\* The first scoped thread: the inverse suffix array.
IsaThread ==
    /\ pc = "threads"
    /\ "isa" \notin joined
    /\ inverse_suffix_array' = InverseSuffixArray(sa.array, Len(input))
    /\ joined' = joined \cup {"isa"}
    /\ UNCHANGED <<input, pc, sa, psv, nsv, k, raw_factors, starts, factors,
                   flag_mode, next_factor, packer, reader, decoded>>
    /\ UNCHANGED <<driverVars, huffmanVars, containerVars, scanVars, treeVars>>

\* The second scoped thread: the PSV/NSV sweep.
SweepThread ==
    /\ pc = "threads"
    /\ "sweep" \notin joined
    /\ LET r == Sweep(sa.array, Len(input))
       IN  psv' = r.psv /\ nsv' = r.nsv
    /\ joined' = joined \cup {"sweep"}
    /\ UNCHANGED <<input, pc, sa, inverse_suffix_array, k, raw_factors, starts,
                   factors, flag_mode, next_factor, packer, reader, decoded>>
    /\ UNCHANGED <<driverVars, huffmanVars, containerVars, scanVars, treeVars>>

\* The scope ends when both threads have finished.
ScopeJoin ==
    /\ pc = "threads"
    /\ joined = {"isa", "sweep"}
    /\ pc' = "factors"
    /\ k' = 0
    /\ UNCHANGED <<input, sa, joined, inverse_suffix_array, psv, nsv, raw_factors,
                   starts, factors, flag_mode, next_factor, packer, reader, decoded>>
    /\ UNCHANGED <<driverVars, huffmanVars, containerVars, scanVars, treeVars>>

\* while k < n: one factor.
FactorStep ==
    /\ pc = "factors"
    /\ k < Len(input)
    /\ LET f == FactorAt(input, sa.array, inverse_suffix_array, psv, nsv, k)
       IN  /\ raw_factors' = Append(raw_factors, <<f[1], f[2], f[3]>>)
           /\ k' = f[4]
    /\ starts' = Append(starts, k)
    /\ UNCHANGED <<input, pc, sa, joined, inverse_suffix_array, psv, nsv, factors,
                   flag_mode, next_factor, packer, reader, decoded>>
    /\ UNCHANGED <<driverVars, huffmanVars, containerVars, scanVars, treeVars>>

\* The post-pass, the choice of the flag mode and the flag bit.
PostPassStep ==
    /\ pc = "factors"
    /\ k >= Len(input)
    /\ LET fs == PostPass(input, raw_factors)
       IN  /\ factors' = fs
           /\ flag_mode' = FlagMode(fs)
           /\ packer' = PackInit(fs)
    /\ next_factor' = 1
    /\ pc' = "pack"
    /\ UNCHANGED <<input, sa, joined, inverse_suffix_array, psv, nsv, k, raw_factors,
                   starts, reader, decoded>>
    /\ UNCHANGED <<driverVars, huffmanVars, containerVars, scanVars, treeVars>>

\* The packer's fold, one factor.
PackStep ==
    /\ pc = "pack"
    /\ next_factor <= Len(factors)
    /\ packer' = PackFactor(packer, flag_mode, factors[next_factor])
    /\ next_factor' = next_factor + 1
    /\ UNCHANGED <<input, pc, sa, joined, inverse_suffix_array, psv, nsv, k,
                   raw_factors, starts, factors, flag_mode, reader, decoded>>
    /\ UNCHANGED <<driverVars, huffmanVars, containerVars, scanVars, treeVars>>

\* fast_encode returns the buffer; LZ77::decode reads its flag bit.
DecodeBegin ==
    /\ pc = "pack"
    /\ next_factor > Len(factors)
    /\ reader' = [DecodeInit EXCEPT !.status =
                     IF can_read(packer.buf, 0, 1) THEN "reading" ELSE "panic"]
    /\ pc' = "decode"
    /\ UNCHANGED <<input, sa, joined, inverse_suffix_array, psv, nsv, k, raw_factors,
                   starts, factors, flag_mode, next_factor, packer, decoded>>
    /\ UNCHANGED <<driverVars, huffmanVars, containerVars, scanVars, treeVars>>

\* One pass of the reader's while loop.
DecodeStepAct ==
    /\ pc = "decode"
    /\ reader.status = "reading"
    /\ reader' = DecodeStep(packer.buf, read_bits(packer.buf, 0, 1) = 1, reader)
    /\ UNCHANGED <<input, pc, sa, joined, inverse_suffix_array, psv, nsv, k,
                   raw_factors, starts, factors, flag_mode, next_factor, packer, decoded>>
    /\ UNCHANGED <<driverVars, huffmanVars, containerVars, scanVars, treeVars>>

\* The reader has run out of bits: decode_chunk.
DecodeEnd ==
    /\ pc = "decode"
    /\ reader.status # "reading"
    /\ decoded' = IF reader.status = "panic" THEN [bytes |-> <<>>, panic |-> TRUE]
                  ELSE decode_chunk(reader.factors)
    /\ pc' = "done"
    /\ UNCHANGED <<input, sa, joined, inverse_suffix_array, psv, nsv, k, raw_factors,
                   starts, factors, flag_mode, next_factor, packer, reader>>
    /\ UNCHANGED <<driverVars, huffmanVars, containerVars, scanVars, treeVars>>

Next ==
    \/ SaRoundStep
    \/ SaReturn
    \/ IsaThread
    \/ SweepThread
    \/ ScopeJoin
    \/ FactorStep
    \/ PostPassStep
    \/ PackStep
    \/ DecodeBegin
    \/ DecodeStepAct
    \/ DecodeEnd

Spec == Init /\ [][Next]_vars

\* The staged run agrees with the closed forms the drivers use.
StagedRoundTrip ==
    pc = "done" => /\ decoded = [bytes |-> input, panic |-> FALSE]
                   /\ packer.buf = fast_encode(input)

\* ------------------------------------------------ claims on one chunk
\* The byte at position a of the chunk, the sentinel (below every byte) at n.
CharAt(a) == IF a < Len(input) THEN input[a + 1] ELSE -1

\* The suffix starting at a precedes the suffix starting at b.
SuffixLess(a, b) ==
    \E t \in 0..(Len(input) - (IF a > b THEN a ELSE b)) :
        /\ CharAt(a + t) < CharAt(b + t)
        /\ \A u \in 0..(t - 1) : CharAt(a + u) = CharAt(b + u)

\* C9: once SuffixArray::new has returned, array is a permutation of 0..n
\* and the suffixes it lists are strictly ascending, the end-of-string
\* sentinel being smaller than every byte.
SuffixArrayCorrect ==
    pc # "suffix_array" =>
        /\ DOMAIN sa.array = 0..Len(input)
        /\ {sa.array[i] : i \in 0..Len(input)} = 0..Len(input)
        /\ \A i \in 0..(Len(input) - 1) : SuffixLess(sa.array[i], sa.array[i + 1])

\* C9's case: a chunk of two byte values that needs three doubling rounds.
SuffixArrayWitness ==
    /\ pc = "threads"
    /\ Len(input) >= 4
    /\ sa.k = 8
    /\ Cardinality({input[i] : i \in 1..Len(input)}) = 2
    /\ sa.array # [i \in 0..Len(input) |-> Len(input) - i]

\* The previous and the next smaller value of index i, 0 when there is none.
PsvOf(array, i) ==
    LET smaller == {j \in 0..(i - 1) : array[j] < array[i]}
    IN  IF smaller = {} THEN 0 ELSE Max(smaller)

NsvOf(array, n, i) ==
    LET smaller == {j \in (i + 1)..n : array[j] < array[i]}
    IN  IF smaller = {} THEN 0 ELSE Min(smaller)

\* C10: after the sweep, for every index i in 0..n, psv[i] is the largest
\* j < i with SA[j] < SA[i] and nsv[i] the smallest j > i with SA[j] < SA[i],
\* each 0 when there is no such j.
PsvNsvDefinition ==
    "sweep" \in joined =>
        \A i \in 0..Len(input) :
            /\ psv[i] = PsvOf(sa.array, i)
            /\ nsv[i] = NsvOf(sa.array, Len(input), i)

\* The number of bytes the factors before the i-th decode to.
DecodedBefore(fs, i) ==
    LET len(j) == IF fs[j][2] > 1 THEN fs[j][2] ELSE 1
        RECURSIVE sum(_)
        sum(j) == IF j = 0 THEN 0 ELSE len(j) + sum(j - 1)
    IN  sum(i - 1)

RunOfIdenticalBytes ==
    (/\ pc = "done"
     /\ Len(input) >= 2
     /\ \A i \in 1..Len(input) : input[i] = input[1])
    => /\ Len(raw_factors) = 2
       /\ raw_factors[1][2] = 0
       /\ raw_factors[1][3] = input[1]
       /\ raw_factors[2][2] = Len(input) - 1
       /\ starts = <<0, 1>>
       /\ decoded = [bytes |-> input, panic |-> FALSE]

\* The bytes a logged field adds to the output: 1 for a literal, l for a
\* reference or a fragment of one.
FieldAdvance(e) == IF e.l = 0 THEN 1 ELSE e.l

\* C11: while LZ77::decode reads a chunk fast_encode produced, the counter
\* the reader holds before each factor coding is the counter the packer held
\* when it wrote that coding, and so are the widths of the length and the
\* offset field; the counter starts at 0 and grows by 1 for a literal, by l
\* for a reference and by max_lenght for a fragment of a split run, on both
\* sides; the reader never runs short inside a coding and stops after the
\* last one.
Lockstep ==
    pc \in {"decode", "done"} =>
        /\ reader.status # "panic"
        /\ Len(reader.log) <= Len(packer.log)
        /\ Len(reader.factors) = Len(reader.log)
        /\ \A i \in 1..Len(reader.log) :
               /\ reader.log[i].D = packer.log[i].D
               /\ reader.log[i].lenght_size = packer.log[i].lenght_size
               /\ reader.log[i].current_bits = packer.log[i].current_bits
               /\ reader.factors[i][2] = packer.log[i].l
               /\ reader.factors[i][1] = packer.log[i].p
        /\ \A i \in 1..Len(packer.log) :
               /\ packer.log[i].D = (IF i = 1 THEN 0
                                     ELSE packer.log[i - 1].D + FieldAdvance(packer.log[i - 1]))
               /\ packer.log[i].l <= MaxLenght(packer.log[i].lenght_size)
        /\ reader.current_char_index =
               (IF Len(reader.log) < Len(packer.log)
                THEN packer.log[Len(reader.log) + 1].D
                ELSE packer.current_char_index)
        /\ reader.status = "end" => Len(reader.log) = Len(packer.log)

\* C11's case: a chunk with literals, references and a split run, some of
\* them coded with a length field of two bits, has been read to its end.
LockstepWitness ==
    /\ pc = "done"
    /\ reader.status = "end"
    /\ Len(reader.log) = Len(packer.log)
    /\ Len(packer.log) > Len(factors)
    /\ \E i \in 1..Len(reader.log) : reader.log[i].lenght_size = 2 /\ reader.factors[i][2] = 3
    /\ \E i \in 1..Len(reader.log) : reader.log[i].lenght_size = 2 /\ reader.factors[i][2] = 0
    /\ \E i \in 1..Len(reader.log) : reader.log[i].lenght_size = 1 /\ reader.factors[i][2] = 1

\* floor(log2(D)) for 1 <= D < 2^31, which is 31 - leading_zero_count_32(D).
FloorLog2(D) == CHOOSE b \in 0..30 : 2 ^ b <= D /\ (b = 30 \/ D < 2 ^ (b + 1))

Clamp(v, lo, hi) == IF v < lo THEN lo ELSE IF v > hi THEN hi ELSE v

\* The width of the length field at D >= 1 as the specification states it
\* and as the code computes it.
LengthBitsThird(D) == Clamp(FloorLog2(D) \div 3, 1, 8)
LengthBitsHalf(D) == Clamp(FloorLog2(D) \div 2, 1, 8)

\* Positions around every step of the width, up to the largest chunk.
WidthSamples ==
    {1, 2, 3, 4, 7, 8, 15, 16, 63, 64, 255, 256, 511, 512, 4095, 4096, 65535, 65536,
     262143, 262144, 16777215, 16777216, 1073741823, 1073741824, 2147483646}

\* Every field the packer has written and the reader has read has the width
\* W of its position (1 at position 0) and a length of at most
\* 2^width - 1; a fragment of a split run has exactly that length.
WidthsFollow(W(_)) ==
    /\ \A D \in WidthSamples : LenghtSizeAt(D) = W(D)
    /\ pc \in {"pack", "decode", "done"} =>
           /\ \A i \in 1..Len(packer.log) :
                  LET e == packer.log[i]
                  IN  /\ e.lenght_size = (IF e.D = 0 THEN 1 ELSE W(e.D))
                      /\ e.l <= 2 ^ e.lenght_size - 1
                      /\ e.lval = U32_MAX => e.l = 2 ^ e.lenght_size - 1
           /\ packer.lenght_size = (IF packer.current_char_index = 0 THEN 1
                                    ELSE W(packer.current_char_index))
    /\ pc \in {"decode", "done"} =>
           /\ \A i \in 1..Len(reader.log) :
                  LET e == reader.log[i]
                  IN  /\ e.lenght_size = (IF e.D = 0 THEN 1 ELSE W(e.D))
                      /\ reader.factors[i][2] <= 2 ^ e.lenght_size - 1
           /\ reader.lenght_size = (IF reader.current_char_index = 0 THEN 1
                                    ELSE W(reader.current_char_index))

\* C12 as stated: at every position D >= 1 reached while packing or
\* unpacking a chunk the length field is
\* clamp(floor((31 - leading_zero_count_32(D)) / 3), 1, 8) bits wide and
\* L_max = 2^width - 1; the width before any byte is decoded is 1.
LengthWidthThird == WidthsFollow(LengthBitsThird)

\* C12 as amended: the divisor is 2, the width is
\* clamp(floor((31 - leading_zero_count_32(D)) / 2), 1, 8).
LengthWidthHalf == WidthsFollow(LengthBitsHalf)

\* C12's case: past position 16 a literal, a reference and a fragment of a
\* split run have been written with a length field of two bits and read back.
LengthWidthWitness ==
    /\ pc = "done"
    /\ Len(reader.log) = Len(packer.log)
    /\ \E i \in 1..Len(packer.log) :
           packer.log[i].D >= 16 /\ packer.log[i].lenght_size = 2 /\ packer.log[i].l = 0
    /\ \E i \in 1..Len(packer.log) :
           /\ packer.log[i].D >= 16 /\ packer.log[i].lenght_size = 2
           /\ packer.log[i].l \in {1, 2} /\ packer.log[i].lval = packer.log[i].l
    /\ \E i \in 1..Len(packer.log) :
           /\ packer.log[i].D >= 16 /\ packer.log[i].lenght_size = 2
           /\ packer.log[i].l = 3 /\ packer.log[i].lval = U32_MAX

\* C15: at every offset field fast_encode writes, the fragments of split
\* runs included, the packer's position D is at least 1 and the source
\* position p is below D, so p is below 2^offset_bits(D) with
\* offset_bits(D) = 32 - leading_zero_count_32(D) and the field holds p
\* whole; the first factor of a chunk that is not empty is a literal, and
\* decode_chunk only reads an index that has been written.
OffsetsFit ==
    pc \in {"pack", "decode", "done"} =>
        /\ \A i \in 1..Len(packer.log) :
               LET e == packer.log[i]
               IN  e.l >= 1 =>
                       /\ e.D >= 1
                       /\ e.p < e.D
                       /\ e.current_bits = FloorLog2(e.D) + 1
                       /\ e.p < 2 ^ e.current_bits
                       /\ i < Len(packer.log) /\ e.lval = U32_MAX =>
                              /\ packer.log[i + 1].p = e.p + e.l
                              /\ packer.log[i + 1].l >= 1
        /\ Len(input) >= 1 => Len(factors) >= 1 /\ factors[1][2] = 0
        /\ pc \in {"decode", "done"} =>
               \A i \in 1..Len(reader.log) :
                   reader.factors[i][2] >= 1 =>
                       /\ reader.factors[i][1] = packer.log[i].p
                       /\ reader.factors[i][1] < reader.log[i].D
        /\ pc = "done" => ~decoded.panic

\* C15's case: a run has been split and its second fragment starts at the
\* advanced source; one reference has the largest offset its position
\* allows and one fills the top bit of its field; the chunk is decoded.
OffsetsFitWitness ==
    /\ pc = "done"
    /\ decoded = [bytes |-> input, panic |-> FALSE]
    /\ \E i \in 1..(Len(packer.log) - 1) :
           /\ packer.log[i].lval = U32_MAX
           /\ packer.log[i].D >= 16
           /\ packer.log[i + 1].p = packer.log[i].p + 3
    /\ \E i \in 1..Len(packer.log) :
           packer.log[i].l >= 1 /\ packer.log[i].p = packer.log[i].D - 1
    /\ \E i \in 1..Len(packer.log) :
           /\ packer.log[i].l >= 1
           /\ packer.log[i].current_bits >= 4
           /\ packer.log[i].p >= 2 ^ (packer.log[i].current_bits - 1)

\* ======================================== the parallel drivers (SpecDriver)
\* Seven bytes: four chunks for LZ77::encode and three for
\* ParrallelHuffman::encrypt at the exponent 2.
SeedManyChunks == <<0, 255, 0, 0, 255, 255, 0>>

\* Thirty-two bytes: at the exponent 5, LZ77::encode cuts a first chunk on
\* which fast_encode selects flag_mode = false and a second one on which it
\* selects flag_mode = true.
SeedBothModes == SeedWideFields \o <<0, 255>>

\* The exponents the drivers are run with.  The code takes 8..31; the chunk
\* sizes 2^bits - 2 and 2^bits - 1 are computed alike from these.
BitsRange == 2..MaxBits

\* The calls that are run: <<input, bits>>.
DriverCalls ==
    ((SeqsUpTo(Alphabet, MaxDataLen) \cup {SeedManyChunks}) \X BitsRange)
        \cup {<<SeedBothModes, MaxBits>>}

InitDriver ==
    /\ \E call \in DriverCalls : data = call[1] /\ bits = call[2]
    /\ codec \in {"lz", "huffman"}
    /\ workers \in 1..MaxWorkers
    /\ phase = "split"
    /\ chunks = <<>>
    /\ task = <<>>
    /\ slot = <<>>
    /\ finished = <<>>
    /\ bitbuffers = <<>>
    /\ result = None
    /\ LzIdle /\ HuffmanIdle /\ ContainerIdle /\ ScanIdle /\ TreeIdle

\* The tasks of a phase, none started.
Todo(n) == [i \in 1..n |-> "todo"]

Empty(n) == [i \in 1..n |-> None]

Running == {i \in DOMAIN task : task[i] = "running"}

AllDone == \A i \in DOMAIN task : task[i] = "done"

\* encode / encrypt: chunk_size, the chunks, and the parallel iterator over
\* them.
Split ==
    /\ phase = "split"
    /\ chunks' = Chunks(data, ChunkSize(codec, bits))
    /\ task' = Todo(NumChunks(Len(data), ChunkSize(codec, bits)))
    /\ slot' = Empty(NumChunks(Len(data), ChunkSize(codec, bits)))
    /\ phase' = "encode"
    /\ UNCHANGED <<data, bits, codec, workers, finished, bitbuffers, result>>
    /\ UNCHANGED <<lzVars, huffmanVars, containerVars, scanVars, treeVars>>

\* A free worker of the pool takes a task that has not started.
WorkerTake(i) ==
    /\ phase \in {"encode", "decode"}
    /\ task[i] = "todo"
    /\ Cardinality(Running) < workers
    /\ task' = [task EXCEPT ![i] = "running"]
    /\ UNCHANGED <<data, bits, codec, workers, phase, chunks, slot, finished,
                   bitbuffers, result>>
    /\ UNCHANGED <<lzVars, huffmanVars, containerVars, scanVars, treeVars>>

\* The closure of an encoding task returns.
EncodeFinish(i) ==
    /\ phase = "encode"
    /\ task[i] = "running"
    /\ slot' = [slot EXCEPT ![i] = EncodeChunk(codec, chunks[i])]
    /\ task' = [task EXCEPT ![i] = "done"]
    /\ finished' = Append(finished, <<"encode", i>>)
    /\ UNCHANGED <<data, bits, codec, workers, phase, chunks, bitbuffers, result>>
    /\ UNCHANGED <<lzVars, huffmanVars, containerVars, scanVars, treeVars>>

\* collect() of the encoding side; decode / decrypt starts its own parallel
\* iterator over the collected list.
EncodeCollect ==
    /\ phase = "encode"
    /\ AllDone
    /\ bitbuffers' = collect(slot, SelectSeq(finished, LAMBDA e : e[1] = "encode"))
    /\ task' = Todo(Len(chunks))
    /\ slot' = Empty(Len(chunks))
    /\ phase' = "decode"
    /\ UNCHANGED <<data, bits, codec, workers, chunks, finished, result>>
    /\ UNCHANGED <<lzVars, huffmanVars, containerVars, scanVars, treeVars>>

\* The closure of a decoding task returns.
DecodeFinish(i) ==
    /\ phase = "decode"
    /\ task[i] = "running"
    /\ slot' = [slot EXCEPT ![i] = DecodeChunk(codec, bitbuffers[i])]
    /\ task' = [task EXCEPT ![i] = "done"]
    /\ finished' = Append(finished, <<"decode", i>>)
    /\ UNCHANGED <<data, bits, codec, workers, phase, chunks, bitbuffers, result>>
    /\ UNCHANGED <<lzVars, huffmanVars, containerVars, scanVars, treeVars>>

\* flat_map(..).collect() of the decoding side.
DecodeCollect ==
    /\ phase = "decode"
    /\ AllDone
    /\ result' = FlatCollect(slot, SelectSeq(finished, LAMBDA e : e[1] = "decode"))
    /\ phase' = "done"
    /\ UNCHANGED <<data, bits, codec, workers, chunks, task, slot, finished, bitbuffers>>
    /\ UNCHANGED <<lzVars, huffmanVars, containerVars, scanVars, treeVars>>

NextDriver ==
    \/ Split
    \/ \E i \in DOMAIN task : WorkerTake(i)
    \/ \E i \in DOMAIN task : EncodeFinish(i)
    \/ EncodeCollect
    \/ \E i \in DOMAIN task : DecodeFinish(i)
    \/ DecodeCollect

SpecDriver == InitDriver /\ [][NextDriver]_vars

\* ------------------------------------------------ claims on the drivers
\* The leading bit of an LZ chunk's buffer is its flag mode.
FlagModesUsed == {bitbuffers[i][1] : i \in 1..Len(bitbuffers)}

\* C1: LZ round trip.  For every input, the empty one included, and every
\* exponent, LZ77::decode(LZ77::encode(X, bits)) returns exactly X, whichever
\* flag mode fast_encode selects for each chunk.
LzRoundTrip ==
    (phase = "done" /\ codec = "lz") => result = [bytes |-> data, panic |-> FALSE]

\* C1's case: a call of several chunks whose buffers carry both flag modes
\* has been decoded.
LzRoundTripWitness ==
    /\ phase = "done"
    /\ codec = "lz"
    /\ FlagModesUsed = {0, 1}
    /\ result.bytes = data

\* The tasks of one phase in the order they finished.
FinishOrder(ph) ==
    LET es == SelectSeq(finished, LAMBDA e : e[1] = ph)
    IN  [i \in 1..Len(es) |-> es[i][2]]

\* C3: whatever the number of workers and the order in which the tasks
\* finish, the i-th entry of the encoded list is the encoding of the i-th
\* chunk, and decoding joins the decoded chunks in that same index order, so
\* that the result equals the input.
ChunkOrder ==
    /\ phase \in {"decode", "done"} =>
           /\ Len(bitbuffers) = Len(chunks)
           /\ \A i \in 1..Len(chunks) : bitbuffers[i] = EncodeChunk(codec, chunks[i])
    /\ phase = "done" =>
           /\ \A i \in 1..Len(chunks) : slot[i] = [bytes |-> chunks[i], panic |-> FALSE]
           /\ result = [bytes |-> data, panic |-> FALSE]

\* C3's case: three chunks or more of different contents, two workers or
\* more, and on both sides the tasks finished out of index order.
ChunkOrderWitness ==
    /\ phase = "done"
    /\ workers >= 2
    /\ Len(chunks) >= 3
    /\ chunks[1] # chunks[2]
    /\ FinishOrder("encode") # [i \in 1..Len(chunks) |-> i]
    /\ FinishOrder("decode") # [i \in 1..Len(chunks) |-> i]
    /\ FinishOrder("encode") # FinishOrder("decode")
    /\ result.bytes = data

\* The chunks joined give back the input.
ChunksJoin == Flatten(chunks) = data

\* C6 as stated: LZ77::encode cuts consecutive chunks that join to the input,
\* each but the last of exactly 2^bits - 1 bytes and the last of 1 to
\* 2^bits - 1 bytes, and ParrallelHuffman::encrypt uses the same size.
ChunkSizeAsStated ==
    phase # "split" =>
        /\ ChunksJoin
        /\ \A i \in 1..Len(chunks) :
               IF i < Len(chunks) THEN Len(chunks[i]) = 2 ^ bits - 1
               ELSE Len(chunks[i]) \in 1..(2 ^ bits - 1)

\* C6, amended: the chunks are consecutive and join to the input; for
\* LZ77::encode each but the last has exactly 2^bits - 2 bytes and the last
\* 1 to 2^bits - 2 bytes; for ParrallelHuffman::encrypt the size is
\* 2^bits - 1.
ChunkSizeInCode ==
    phase # "split" =>
        /\ ChunksJoin
        /\ \A i \in 1..Len(chunks) :
               LET size == IF codec = "lz" THEN 2 ^ bits - 2 ELSE 2 ^ bits - 1
               IN  IF i < Len(chunks) THEN Len(chunks[i]) = size
                   ELSE Len(chunks[i]) \in 1..size

\* C6's case: LZ77::encode has cut three chunks or more, the last one short.
ChunkSizeWitness ==
    /\ phase = "encode"
    /\ codec = "lz"
    /\ Len(chunks) >= 3
    /\ Len(chunks[Len(chunks)]) < Len(chunks[1])

\* ================================= one Huffman chunk (SpecHuffman)
InitHuffman ==
    /\ plain \in SeqsUpTo(Alphabet, MaxLen)
    /\ h_pc = "build_tree"
    /\ pq = {}
    /\ huffman = None
    /\ reverse_map = None
    /\ dec = None
    /\ LzIdle /\ DriverIdle /\ ContainerIdle /\ ScanIdle /\ TreeIdle

\* build_tree counts the bytes; from_counts fills the queue.
BuildTree ==
    /\ h_pc = "build_tree"
    /\ pq' = PqInit(Counts(plain))
    /\ h_pc' = "from_counts"
    /\ UNCHANGED <<plain, huffman, reverse_map, dec>>
    /\ UNCHANGED <<lzVars, driverVars, containerVars, scanVars, treeVars>>

\* while pq.len() > 1: two pops and a push.  Which of several entries of the
\* lowest count a pop returns is the queue's affair.
PqMerge ==
    /\ h_pc = "from_counts"
    /\ Cardinality(pq) > 1
    /\ \E left \in PopChoices(pq) :
           \E right \in PopChoices(pq \ {left}) :
               pq' = PqMerged(pq, left, right)
    /\ UNCHANGED <<plain, h_pc, huffman, reverse_map, dec>>
    /\ UNCHANGED <<lzVars, driverVars, containerVars, scanVars, treeVars>>

\* from_counts returns the last entry; encrypt packs the payload and
\* serialises the tree.
Encrypt ==
    /\ h_pc = "from_counts"
    /\ Cardinality(pq) = 1
    /\ \E last \in pq : huffman' = EncryptWith(plain, last.tree)
    /\ h_pc' = "encrypted"
    /\ UNCHANGED <<plain, pq, reverse_map, dec>>
    /\ UNCHANGED <<lzVars, driverVars, containerVars, scanVars, treeVars>>

\* decrypt: the tree is read back and the table built.
DecryptBegin ==
    /\ h_pc = "encrypted"
    /\ LET t == better_deserialize(huffman.tree)
       IN  IF t.status = "ok"
           THEN /\ reverse_map' = build_reverse_map(t.tree)
                /\ dec' = DecryptInit
           ELSE /\ reverse_map' = None
                /\ dec' = [DecryptInit EXCEPT !.panic = TRUE]
    /\ h_pc' = "decrypt"
    /\ UNCHANGED <<plain, pq, huffman>>
    /\ UNCHANGED <<lzVars, driverVars, containerVars, scanVars, treeVars>>

\* One pass of decrypt's loop over the payload bits.
DecryptBit ==
    /\ h_pc = "decrypt"
    /\ ~dec.panic
    /\ dec.i < DecryptBits(huffman)
    /\ dec' = DecryptStep(huffman, reverse_map, dec)
    /\ UNCHANGED <<plain, h_pc, pq, huffman, reverse_map>>
    /\ UNCHANGED <<lzVars, driverVars, containerVars, scanVars, treeVars>>

\* The loop is over (or has panicked): decrypt returns result.
DecryptReturn ==
    /\ h_pc = "decrypt"
    /\ dec.panic \/ dec.i >= DecryptBits(huffman)
    /\ h_pc' = "decrypted"
    /\ UNCHANGED <<plain, pq, huffman, reverse_map, dec>>
    /\ UNCHANGED <<lzVars, driverVars, containerVars, scanVars, treeVars>>

NextHuffman ==
    \/ BuildTree
    \/ PqMerge
    \/ Encrypt
    \/ DecryptBegin
    \/ DecryptBit
    \/ DecryptReturn

SpecHuffman == InitHuffman /\ [][NextHuffman]_vars

\* ------------------------------------------- claims on one Huffman chunk
\* C2: Huffman round trip.  For every input of one byte or more, decrypt
\* walks over exactly 8 * |data| - unused_bits payload bits, the lookups on
\* the accumulator 1 || code bits emit the encoded symbols in order, none is
\* lost or invented at the padded tail, and decrypt(encrypt(X)) = X.
HuffmanRoundTrip ==
    Len(plain) >= 1 =>
        /\ h_pc \in {"decrypt", "decrypted"} =>
               /\ ~dec.panic
               /\ dec.i <= 8 * Len(huffman.data) - huffman.unused_bits
               /\ Len(dec.result) <= Len(plain)
               /\ dec.result = SubSeq(plain, 1, Len(dec.result))
        /\ h_pc = "decrypted" =>
               /\ dec.i = 8 * Len(huffman.data) - huffman.unused_bits
               /\ dec.input = <<>>
               /\ dec.result = plain

\* C2's case: a chunk of two byte values whose payload ends inside a byte
\* has been decrypted.
HuffmanRoundTripWitness ==
    /\ h_pc = "decrypted"
    /\ Cardinality({plain[i] : i \in 1..Len(plain)}) = 2
    /\ huffman.unused_bits > 0
    /\ Len(huffman.data) >= 1
    /\ dec.result = plain

\* ================================ compress and decompress (SpecContainer)
\* The byte values the serialised forms and the files are drawn from.
ByteSamples == {0, 1, 2}

\* compress reads the two serialised forms only for their lengths and
\* copies the bytes of the one it keeps; decompress reads whatever file its
\* path names.
Forms == SeqsUpTo(ByteSamples, MaxFormLen)

InitContainer ==
    /\ lz_encoded \in Forms
    /\ huffman_serialized \in Forms
    /\ c_pc = "compress"
    /\ contents = <<>>
    /\ root = None
    /\ LzIdle /\ DriverIdle /\ HuffmanIdle /\ ScanIdle /\ TreeIdle

\* compress: the tag, the chosen form, fs::write.
Compress ==
    /\ c_pc = "compress"
    /\ contents' = Compressed(lz_encoded, huffman_serialized)
    /\ c_pc' = "written"
    /\ UNCHANGED <<lz_encoded, huffman_serialized, root>>
    /\ UNCHANGED <<lzVars, driverVars, huffmanVars, scanVars, treeVars>>

\* decompress is pointed at a file that compress did not write.
OtherFile ==
    /\ c_pc = "written"
    /\ contents' \in Forms
    /\ c_pc' = "other"
    /\ UNCHANGED <<lz_encoded, huffman_serialized, root>>
    /\ UNCHANGED <<lzVars, driverVars, huffmanVars, scanVars, treeVars>>

\* decompress: fs::read and the branch on contents[0].
Decompress ==
    /\ c_pc \in {"written", "other"}
    /\ root' = Decompressed(contents)
    /\ c_pc' = "read"
    /\ UNCHANGED <<lz_encoded, huffman_serialized, contents>>
    /\ UNCHANGED <<lzVars, driverVars, huffmanVars, scanVars, treeVars>>

NextContainer ==
    \/ Compress
    \/ OtherFile
    \/ Decompress

SpecContainer == InitContainer /\ [][NextContainer]_vars

\* ---------------------------------------------- claims on the container
\* C4: compress writes the tag byte 0 and the LZ-only form when
\* |lz| <= |huffman|, the tag byte 1 and the LZ-then-Huffman form
\* otherwise; the output is 1 + min(|lz|, |huffman|) bytes long.
TagSelection ==
    c_pc = "written" =>
        /\ Len(lz_encoded) <= Len(huffman_serialized) => contents = <<0>> \o lz_encoded
        /\ Len(lz_encoded) > Len(huffman_serialized) =>
               contents = <<1>> \o huffman_serialized
        /\ Len(contents) = 1 + Min({Len(lz_encoded), Len(huffman_serialized)})

\* C4's case: the Huffman form is the shorter one and has been written.
TagSelectionWitness ==
    /\ c_pc = "written"
    /\ Len(huffman_serialized) >= 1
    /\ Len(huffman_serialized) < Len(lz_encoded)
    /\ contents[1] = 1

\* C5: given a container whose leading byte is neither 0 nor 1, decompress
\* reports InvalidTag and reads the payload neither as an LZ-only nor as an
\* LZ-then-Huffman stream.
InvalidTagReported ==
    (c_pc = "read" /\ contents # <<>> /\ contents[1] \notin {0, 1}) =>
        root.branch = "InvalidTag"

\* ==================================== the post-pass scan (SpecScan)
\* A chunk of 129 bytes whose factor loop ends with a reference of length 1
\* that starts at position 127.
SeedLateShortReference == [i \in 1..129 |-> IF i \in {127, 129} THEN 255 ELSE 0]

\* Values of the accumulator next to each threshold of the scan.
CountSamples ==
    {2, 3} \cup UNION {(t - 4)..(t + 1) : t \in {Threshold1, Threshold2, Threshold3}}

\* The lengths of the factors the iterator holds.
ScanLengths == UNION {[1..m -> 0..4] : m \in 1..MaxScanLen}

\* The bytes of a chunk of period two around position from (0-based
\* position x is entry x + 1).
ScanWindow(pattern, from) ==
    [x \in (from - 1)..(from + 4 * MaxScanLen + 1) |-> pattern[(x - 1) % 2]]

\* The factor of length l the factor loop pushes at position D of such a
\* chunk: a literal, or a reference to the bytes two positions back.
ScanFactorAt(window, D, l) == <<IF l = 0 THEN 0 ELSE D - 2, l, window[D + l + 1]>>

RECURSIVE ScanFactorsFrom(_, _, _, _)
ScanFactorsFrom(window, D, lens, i) ==
    IF i > Len(lens) THEN <<>>
    ELSE <<ScanFactorAt(window, D, lens[i])>>
             \o ScanFactorsFrom(window, ScanCount(D, lens[i]), lens, i + 1)

InitScan ==
    /\ \/ /\ scan_input = SeedLateShortReference
          /\ scan_count = 0
          /\ scan_todo = Factorise(SeedLateShortReference)
       \/ \E pattern \in [0..1 -> Alphabet], from \in CountSamples, lens \in ScanLengths :
              /\ scan_input = ScanWindow(pattern, from)
              /\ scan_count = from
              /\ scan_todo = ScanFactorsFrom(ScanWindow(pattern, from), from, lens, 1)
    /\ scan_pc = "scan"
    /\ scan_out = <<>>
    /\ scan_log = <<>>
    /\ LzIdle /\ DriverIdle /\ HuffmanIdle /\ ContainerIdle /\ TreeIdle

\* The scan closure on the next factor: *count += l.max(1), then the tests.
ScanNext ==
    /\ scan_pc = "scan"
    /\ scan_todo # <<>>
    /\ LET f == Head(scan_todo)
           count == ScanCount(scan_count, f[2])
           out == ScanFactor(scan_input, count, f)
       IN  /\ scan_count' = count
           /\ scan_out' = scan_out \o out
           /\ scan_log' = Append(scan_log, [D |-> scan_count, f |-> f, out |-> out])
    /\ scan_todo' = Tail(scan_todo)
    /\ UNCHANGED <<scan_pc, scan_input>>
    /\ UNCHANGED <<lzVars, driverVars, huffmanVars, containerVars, treeVars>>

\* .flatten().collect()
ScanCollect ==
    /\ scan_pc = "scan"
    /\ scan_todo = <<>>
    /\ scan_pc' = "collected"
    /\ UNCHANGED <<scan_input, scan_todo, scan_count, scan_out, scan_log>>
    /\ UNCHANGED <<lzVars, driverVars, huffmanVars, containerVars, treeVars>>

NextScan ==
    \/ ScanNext
    \/ ScanCollect

SpecScan == InitScan /\ [][NextScan]_vars

\* The scan run from the start of a chunk is the post-pass of fast_encode.
ScanIsPostPass ==
    (scan_pc = "collected" /\ scan_log # <<>> /\ scan_log[1].D = 0) =>
        scan_out = PostPass(scan_input, [i \in 1..Len(scan_log) |-> scan_log[i].f])

\* The literals that stand for the l bytes from position D of the chunk.
LiteralsAt(D, l) == [t \in 1..l |-> <<0, 0, scan_input[D + t]>>]

\* A reference of length l is replaced when the position at is at or past
\* the threshold of l.
ShortAt(l, at) ==
    \/ l = 1 /\ at >= Threshold1
    \/ l = 2 /\ at >= Threshold2
    \/ l = 3 /\ at >= Threshold3

\* C13: with D the number of bytes decoded before a factor, a reference of
\* length 1 is replaced by one literal exactly when D >= 128, of length 2 by
\* two literals exactly when D >= 32768, of length 3 by three literals
\* exactly when D >= 8388608; every other factor passes unchanged, and the
\* literals are the bytes of the chunk at the factor's own position.
PostPassAtStart ==
    \A i \in 1..Len(scan_log) :
        LET e == scan_log[i]
        IN  e.out = IF ShortAt(e.f[2], e.D) THEN LiteralsAt(e.D, e.f[2]) ELSE <<e.f>>

\* What the scan does: the accumulator is compared after the factor's own
\* length has been added, so the thresholds bear on D + l, the position at
\* which the factor ends.
PostPassAtEnd ==
    \A i \in 1..Len(scan_log) :
        LET e == scan_log[i]
        IN  e.out = IF ShortAt(e.f[2], e.D + e.f[2]) THEN LiteralsAt(e.D, e.f[2])
                    ELSE <<e.f>>

\* The scan has met references of each short length on both sides of the
\* threshold, those of the chunk of 129 bytes among them.
PostPassReached ==
    /\ scan_pc = "collected"
    /\ scan_input = SeedLateShortReference
    /\ \E i \in 1..Len(scan_log) : scan_log[i].f[2] = 1 /\ scan_log[i].D = Threshold1 - 1

\* ======================== HuffmanTree::better_deserialize (SpecTree)
\* The serialised trees Huffman::encrypt stores, and every prefix of their
\* bits: what better_deserialize is handed when the stream was cut short.
TreeStreams ==
    UNION {{SubSeq(SerializeRec(build_tree(bytes)), 1, cut) :
                cut \in 0..Len(SerializeRec(build_tree(bytes)))} :
           bytes \in SeqsUpTo(Alphabet, MaxTreeLen)}

InitTree ==
    /\ \E stream \in TreeStreams :
           tree_bits = BitBuffer_deserialize(BitBuffer_serialize(stream))
    /\ tree_pc = "reading"
    /\ tree_r = 0
    /\ tree_stack = <<>>
    /\ tree_out = None
    /\ LzIdle /\ DriverIdle /\ HuffmanIdle /\ ContainerIdle /\ ScanIdle

RECURSIVE ReturnInto(_, _)
\* A call returns the node t: it becomes the first child of the call that
\* waits on top of the stack, or completes that call, which returns in turn.
ReturnInto(stack, t) ==
    IF stack = <<>> THEN [stack |-> <<>>, out |-> t]
    ELSE LET top == stack[Len(stack)]
             below == SubSeq(stack, 1, Len(stack) - 1)
         IN  IF top.children = <<>>
             THEN [stack |-> Append(below, [top EXCEPT !.children = <<t>>]), out |-> None]
             ELSE ReturnInto(below, Internal(top.children[1], t))

\* One call of better_deserialize_rec whose read_bit is Some(true): a leaf
\* with whatever read_byte returns, handed to the callers.
TreeLeaf ==
    /\ tree_pc = "reading"
    /\ can_read(tree_bits, tree_r, 1)
    /\ read_bits(tree_bits, tree_r, 1) = 1
    /\ LET has_byte == can_read(tree_bits, tree_r + 1, 8)
           leaf == Leaf(IF has_byte THEN read_bits(tree_bits, tree_r + 1, 8) ELSE NoChar)
           ret == ReturnInto(tree_stack, leaf)
       IN  /\ tree_r' = IF has_byte THEN tree_r + 9 ELSE tree_r + 1
           /\ tree_stack' = ret.stack
           /\ tree_out' = ret.out
           /\ tree_pc' = IF ret.out = None THEN "reading" ELSE "returned"
    /\ UNCHANGED tree_bits
    /\ UNCHANGED <<lzVars, driverVars, huffmanVars, containerVars, scanVars>>

\* One call whose read_bit is anything else, Some(false) or None: the call
\* waits for two children.  The thread's stack holds MaxDepth calls.
TreeInternal ==
    /\ tree_pc = "reading"
    /\ IF can_read(tree_bits, tree_r, 1) THEN read_bits(tree_bits, tree_r, 1) = 0 ELSE TRUE
    /\ IF Len(tree_stack) >= MaxDepth
       THEN /\ tree_pc' = "stack_overflow"
            /\ UNCHANGED <<tree_r, tree_stack>>
       ELSE /\ tree_stack' = Append(tree_stack,
                                    [children |-> <<>>,
                                     tag |-> IF can_read(tree_bits, tree_r, 1)
                                             THEN "false" ELSE "none"])
            /\ tree_r' = IF can_read(tree_bits, tree_r, 1) THEN tree_r + 1 ELSE tree_r
            /\ UNCHANGED tree_pc
    /\ UNCHANGED <<tree_bits, tree_out>>
    /\ UNCHANGED <<lzVars, driverVars, huffmanVars, containerVars, scanVars>>

NextTree ==
    \/ TreeLeaf
    \/ TreeInternal

SpecTree == InitTree /\ [][NextTree]_vars

\* The calls taken one by one agree with the closed form decrypt uses.
TreeIsDeserializeRec ==
    LET whole == DeserializeRec(tree_bits, 0, Len(tree_bits) + 1)
    IN  /\ tree_pc = "returned" =>
               whole.status \in {"ok", "no_character"} /\ whole.tree = tree_out
        /\ tree_pc = "stack_overflow" => whole.status = "overflow"

RECURSIVE NodeEnd(_, _)
\* The cursor after the node that starts at cursor r of a bit stream, -1 when
\* the stream ends inside it.
NodeEnd(stream, r) ==
    IF r < 0 \/ r >= Len(stream) THEN -1
    ELSE IF stream[r + 1] = 1 THEN (IF r + 9 <= Len(stream) THEN r + 9 ELSE -1)
    ELSE NodeEnd(stream, NodeEnd(stream, r + 1))

RECURSIVE MissingSymbol(_)
\* The tree has a leaf without a character.
MissingSymbol(tree) ==
    IF tree.children = <<>> THEN tree.character = NoChar
    ELSE MissingSymbol(tree.children[1]) \/ MissingSymbol(tree.children[2])

\* C14: when the bit stream ends in the middle of a node, better_deserialize
\* terminates with a MalformedTree error: it makes no call once the bits
\* have run out, returns no tree (one with a missing symbol in particular)
\* and does not exhaust the stack.
MalformedTreeSignalled ==
    NodeEnd(tree_bits, 0) = -1 =>
        /\ tree_pc \notin {"returned", "stack_overflow"}
        /\ \A i \in 1..Len(tree_stack) : tree_stack[i].tag # "none"
        /\ tree_out = None

\* The reader has returned a tree with a leaf that has no character, and
\* on another stream has filled the stack with calls that read no bit.
MissingSymbolReturned ==
    /\ tree_pc = "returned"
    /\ NodeEnd(tree_bits, 0) = -1
    /\ MissingSymbol(tree_out)

StackExhausted ==
    /\ tree_pc = "stack_overflow"
    /\ NodeEnd(tree_bits, 0) = -1
    /\ tree_stack[Len(tree_stack)].tag = "none"

\* A complete stream is read back as the tree that was written.
CompleteTreeRead ==
    (tree_pc = "returned" /\ NodeEnd(tree_bits, 0) # -1) =>
        /\ ~MissingSymbol(tree_out)
        /\ SerializeRec(tree_out) = tree_bits

=============================================================================
